---------------------------- MODULE Spec2Model ----------------------------
(***************************************************************************)
(* A model of crawl-hog's documentation crawler                            *)
(* (src/crawlhog/core/crawler.py, driven by src/crawlhog/cli/main.py).     *)
(*                                                                         *)
(* Strings are sequences of one-character strings, so that urlparse,       *)
(* normalize_url, the pattern match, sorted() and sanitize_filename are    *)
(* computed character by character as the Python code computes them.       *)
(* The fetch service (FirecrawlApp) is the environment: every call either  *)
(* returns a value or raises an error whose text may hold "429".           *)
(***************************************************************************)
EXTENDS Integers, Sequences, FiniteSets, TLC

(***************************************************************************)
(* Bounds of the model (not program constants).                            *)
(***************************************************************************)
\* Most service answers of one run that fail or lack markdown or html.
MaxFaults == 2
\* The same, for a run on a site of more than ten pages.
MaxBulkFaults == 1
\* Largest max_retries argument tried on retry_with_backoff alone.
MaxRetriesArg == 10
\* Largest URL set whose iteration orders are all enumerated.
MaxPermuted == 3

(***************************************************************************)
(* Strings                                                                 *)
(***************************************************************************)
\* The characters the model's strings use, in code-point order (Python
\* compares strings by code point).
CodePoints ==
    << " ", "#", "%", "*", "+", "-", ".", "/",
       "0", "1", "2", "3", "4", "5", "6", "7", "8", "9",
       ":", ";", "=", "?", "@",
       "A", "B", "D", "F", "I", "O", "P", "R", "X",
       "a", "b", "c", "d", "e", "f", "g", "h", "i", "k", "l", "m", "n",
       "o", "p", "q", "r", "s", "t", "u", "v", "w", "x", "y" >>

Ord(c) == CHOOSE i \in 1..Len(CodePoints) : CodePoints[i] = c

\* a < b for Python strings: the first differing character decides, and a
\* proper prefix is smaller.
RECURSIVE StrLess(_, _)
StrLess(a, b) ==
    IF b = <<>> THEN FALSE
    ELSE IF a = <<>> THEN TRUE
    ELSE IF Head(a) = Head(b) THEN StrLess(Tail(a), Tail(b))
    ELSE Ord(Head(a)) < Ord(Head(b))

\* s.startswith(p)
StartsWith(s, p) == Len(p) <= Len(s) /\ SubSeq(s, 1, Len(p)) = p

\* s.endswith(p)
EndsWith(s, p) ==
    Len(p) <= Len(s) /\ SubSeq(s, Len(s) - Len(p) + 1, Len(s)) = p

\* p in s
Contains(s, p) ==
    \E i \in 1..(Len(s) - Len(p) + 1) : SubSeq(s, i, i + Len(p) - 1) = p

\* s.find(c): the index (from 1) of the first character of s in the set cs,
\* or 0 when there is none.
Find(s, cs) ==
    IF \E i \in 1..Len(s) : s[i] \in cs
    THEN CHOOSE i \in 1..Len(s) :
            s[i] \in cs /\ \A j \in 1..(i - 1) : s[j] \notin cs
    ELSE 0

\* s.rfind(c): the index of the last character of s in cs, or 0.
RFind(s, cs) ==
    IF \E i \in 1..Len(s) : s[i] \in cs
    THEN CHOOSE i \in 1..Len(s) :
            s[i] \in cs /\ \A j \in (i + 1)..Len(s) : s[j] \notin cs
    ELSE 0

\* s.rstrip(cs): every trailing character that is in cs is removed.
RECURSIVE RStrip(_, _)
RStrip(s, cs) ==
    IF s # <<>> /\ s[Len(s)] \in cs
    THEN RStrip(SubSeq(s, 1, Len(s) - 1), cs)
    ELSE s

\* s.lstrip(cs)
RECURSIVE LStrip(_, _)
LStrip(s, cs) ==
    IF s # <<>> /\ Head(s) \in cs THEN LStrip(Tail(s), cs) ELSE s

\* s.strip(cs)
Strip(s, cs) == LStrip(RStrip(s, cs), cs)

\* s.replace(a, b) for single characters a and b.
Replace(s, a, b) == [i \in 1..Len(s) |-> IF s[i] = a THEN b ELSE s[i]]

UpperCase == <<"A", "B", "D", "F", "I", "O", "P", "R", "X">>
LowerCase == <<"a", "b", "d", "f", "i", "o", "p", "r", "x">>

LowerChar(c) ==
    IF \E i \in 1..Len(UpperCase) : UpperCase[i] = c
    THEN LowerCase[CHOOSE i \in 1..Len(UpperCase) : UpperCase[i] = c]
    ELSE c

\* s.lower()
Lower(s) == [i \in 1..Len(s) |-> LowerChar(s[i])]

Letters ==
    {UpperCase[i] : i \in 1..Len(UpperCase)} \cup
    {"a", "b", "c", "d", "e", "f", "g", "h", "i", "k", "l", "m", "n",
     "o", "p", "q", "r", "s", "t", "u", "v", "w", "x", "y"}

Digits == {"0", "1", "2", "3", "4", "5", "6", "7", "8", "9"}

(***************************************************************************)
(* urllib.parse                                                            *)
(***************************************************************************)
\* The scheme urlsplit finds: the text before the first ":" when it starts
\* with a letter and holds only letters, digits, "+", "-" and "."; the
\* scheme is lower-cased.  [scheme, rest]
SplitScheme(u) ==
    LET i == Find(u, {":"})
    IN  IF i > 1 /\ u[1] \in Letters
           /\ \A j \in 1..(i - 1) : u[j] \in Letters \cup Digits \cup {"+", "-", "."}
        THEN [scheme |-> Lower(SubSeq(u, 1, i - 1)),
              rest |-> SubSeq(u, i + 1, Len(u))]
        ELSE [scheme |-> <<>>, rest |-> u]

\* After "//" the netloc runs to the first "/", "?" or "#".  [netloc, rest]
SplitNetloc(r) ==
    IF StartsWith(r, <<"/", "/">>)
    THEN LET t == SubSeq(r, 3, Len(r))
             d == Find(t, {"/", "?", "#"})
         IN  IF d = 0 THEN [netloc |-> t, rest |-> <<>>]
             ELSE [netloc |-> SubSeq(t, 1, d - 1),
                   rest |-> SubSeq(t, d, Len(t))]
    ELSE [netloc |-> <<>>, rest |-> r]

\* The text of s before the first character in cs (all of s without one).
Before(s, cs) ==
    LET i == Find(s, cs) IN IF i = 0 THEN s ELSE SubSeq(s, 1, i - 1)

\* urlparse's ";params" of the last path segment are not part of the path.
SplitParams(p) ==
    LET slash == RFind(p, {"/"})
        tail == SubSeq(p, slash + 1, Len(p))
        i == Find(tail, {";"})
    IN  IF i = 0 THEN p ELSE SubSeq(p, 1, slash + i - 1)

\* The schemes of urllib's uses_params that the model's URLs can have.
UsesParams == {<<>>, <<"h", "t", "t", "p">>, <<"h", "t", "t", "p", "s">>, <<"f", "t", "p">>}

\* urlparse(u): the fields the crawler reads.
urlparse(u) ==
    LET s == SplitScheme(u)
        n == SplitNetloc(s.rest)
        nofrag == Before(n.rest, {"#"})
        noquery == Before(nofrag, {"?"})
    IN  [scheme |-> s.scheme, netloc |-> n.netloc,
         path |-> IF s.scheme \in UsesParams THEN SplitParams(noquery)
                  ELSE noquery]

(***************************************************************************)
(* Pure functions of crawler.py                                            *)
(***************************************************************************)
common_doc_paths ==
    << <<"/", "d", "o", "c", "s", "/", ".", "*">>,
       <<"/", "d", "o", "c", "u", "m", "e", "n", "t", "a", "t", "i", "o", "n", "/", ".", "*">>,
       <<"/", "g", "u", "i", "d", "e", "/", ".", "*">>,
       <<"/", "m", "a", "n", "u", "a", "l", "/", ".", "*">>,
       <<"/", "r", "e", "f", "e", "r", "e", "n", "c", "e", "/", ".", "*">>,
       <<"/", "a", "p", "i", "/", ".", "*">>,
       <<"/", "l", "e", "a", "r", "n", "/", ".", "*">>,
       <<"/", "t", "u", "t", "o", "r", "i", "a", "l", "/", ".", "*">>,
       <<"/", "q", "u", "i", "c", "k", "s", "t", "a", "r", "t", "/", ".", "*">>,
       <<"/", "g", "e", "t", "t", "i", "n", "g", "-", "s", "t", "a", "r", "t", "e", "d", "/", ".", "*">>,
       <<"/", "e", "x", "a", "m", "p", "l", "e", "s", "/", ".", "*">>,
       <<"/", "l", "e", "a", "r", "n">>,
       <<"/", "d", "o", "c", "s">>,
       <<"/", "a", "p", "i">>,
       <<"/", "r", "e", "f", "e", "r", "e", "n", "c", "e">>,
       <<"/", "t", "u", "t", "o", "r", "i", "a", "l">> >>

\* get_docs_patterns(url): the common rules, extended by the first host
\* branch that applies.
get_docs_patterns(u) ==
    LET domain == urlparse(u).netloc
    IN  IF Contains(domain, <<"r", "e", "a", "d", "t", "h", "e", "d", "o", "c", "s">>)
        THEN common_doc_paths \o << <<"/", "e", "n", "/", ".", "*">>, <<"/", "l", "a", "t", "e", "s", "t", "/", ".", "*">> >>
        ELSE IF Contains(domain, <<"g", "i", "t", "h", "u", "b", ".", "i", "o">>)
        THEN common_doc_paths \o << <<"/", ".", "*">> >>
        ELSE IF Contains(domain, <<"r", "e", "a", "c", "t", ".", "d", "e", "v">>)
        THEN common_doc_paths \o
             << <<"/", "l", "e", "a", "r", "n">>, <<"/", "r", "e", "f", "e", "r", "e", "n", "c", "e">>, <<"/", "c", "o", "m", "m", "u", "n", "i", "t", "y">>,
                <<"/", "b", "l", "o", "g">>, <<"/", ".", "*">> >>
        ELSE common_doc_paths

\* PatternMatches with "path.startswith(prefix)": a prefix test.
PatternMatches_prefix(pattern, u) ==
    LET path == urlparse(Lower(u)).path
        wildcard == EndsWith(pattern, <<".", "*">>)
    IN  \/ wildcard /\ StartsWith(path, RStrip(pattern, {".", "*"}))
        \/ ~wildcard /\ pattern = path

\* The test of one rule on one URL (the body of the any(...) of crawl).
PatternMatches(pattern, u) ==
    LET path == urlparse(Lower(u)).path
        wildcard == EndsWith(pattern, <<".", "*">>)
    IN  \/ wildcard /\ Contains(path, RStrip(pattern, {".", "*"}))
        \/ ~wildcard /\ pattern = path

\* any(... for pattern in doc_patterns)
MatchesAny(doc_patterns, u) ==
    \E i \in 1..Len(doc_patterns) : PatternMatches(doc_patterns[i], u)

SchemePrefix == <<"h", "t", "t", "p", "s", ":", "/", "/">>

\* normalize_url with "normalized[:-1]": one trailing slash is removed.
normalize_url_one_slash(u) ==
    LET parsed == urlparse(u)
        normalized == SchemePrefix \o parsed.netloc \o parsed.path
    IN  IF EndsWith(normalized, <<"/">>) /\ Len(normalized) > 8
        THEN SubSeq(normalized, 1, Len(normalized) - 1)
        ELSE normalized

\* normalize_url(url)
normalize_url(u) ==
    LET parsed == urlparse(u)
        normalized == SchemePrefix \o parsed.netloc \o parsed.path
    IN  IF EndsWith(normalized, <<"/">>) /\ Len(normalized) > 8
        THEN RStrip(normalized, {"/"})
        ELSE normalized

\* The percent escapes unquote decodes, for the characters of the model.
HexPairs ==
    << <<"2", "F">>, <<"2", "D">>, <<"2", "0">>, <<"4", "1">>, <<"6", "2">> >>
HexChars == << "/", "-", " ", "A", "b" >>

\* urllib.parse.unquote(s): "%XY" becomes the character it encodes; a "%"
\* that starts no escape stays as it is.
RECURSIVE unquote(_)
unquote(s) ==
    IF s = <<>> THEN <<>>
    ELSE IF Head(s) = "%" /\ Len(s) >= 3
            /\ \E i \in 1..Len(HexPairs) : HexPairs[i] = SubSeq(s, 2, 3)
    THEN <<HexChars[CHOOSE i \in 1..Len(HexPairs) : HexPairs[i] = SubSeq(s, 2, 3)]>>
         \o unquote(SubSeq(s, 4, Len(s)))
    ELSE <<Head(s)>> \o unquote(Tail(s))

\* sanitize_filename without unquote: the path is used as it is spelled.
sanitize_filename_undecoded(u) ==
    LET path == urlparse(u).path
        filename == Replace(Strip(path, {"/"}), "/", "-")
    IN  IF filename = <<>> THEN <<"i", "n", "d", "e", "x">> ELSE filename

\* sanitize_filename(url)
sanitize_filename(u) ==
    LET path == unquote(urlparse(u).path)
        filename == Replace(Strip(path, {"/"}), "/", "-")
    IN  IF filename = <<>> THEN <<"i", "n", "d", "e", "x">> ELSE filename

(***************************************************************************)
(* The environment: sites and the fetch service                            *)
(***************************************************************************)
\* The runs' inputs: the URL given on the command line, the links the
\* service reports on the target page, and the links map_url reports.
Scenarios ==
    <<
      \* end to end: two lists that overlap, one link that is no documentation
      [target |-> <<"h", "t", "t", "p", "s", ":", "/", "/", "x", ".", "c", "o", "m">>,
       links |-> << <<"h", "t", "t", "p", "s", ":", "/", "/", "x", ".", "c", "o", "m", "/", "d", "o", "c", "s", "/", "a">>,
                   <<"h", "t", "t", "p", "s", ":", "/", "/", "x", ".", "c", "o", "m", "/", "b", "l", "o", "g", "/", "p">>,
                   <<"h", "t", "t", "p", "s", ":", "/", "/", "x", ".", "c", "o", "m", "/", "d", "o", "c", "s", "/", "b">> >>,
       map |-> << <<"h", "t", "t", "p", "s", ":", "/", "/", "x", ".", "c", "o", "m", "/", "d", "o", "c", "s", "/", "a">>,
                 <<"h", "t", "t", "p", "s", ":", "/", "/", "x", ".", "c", "o", "m", "/", "a", "p", "i", "/", "r">> >>],
      \* hosts: a subdomain, another domain, a port, another case, relative links
      [target |-> <<"h", "t", "t", "p", ":", "/", "/", "x", ".", "c", "o", "m", "/">>,
       links |-> << <<"h", "t", "t", "p", "s", ":", "/", "/", "x", ".", "c", "o", "m", "/", "d", "o", "c", "s", "/", "a">>,
                   <<"h", "t", "t", "p", "s", ":", "/", "/", "s", "u", "b", ".", "x", ".", "c", "o", "m", "/", "d", "o", "c", "s", "/", "a">>,
                   <<"h", "t", "t", "p", "s", ":", "/", "/", "y", ".", "c", "o", "m", "/", "d", "o", "c", "s", "/", "b">> >>,
       map |-> << <<"h", "t", "t", "p", "s", ":", "/", "/", "x", ".", "c", "o", "m", ":", "8", "0", "/", "d", "o", "c", "s", "/", "a">>,
                 <<"h", "t", "t", "p", "s", ":", "/", "/", "X", ".", "c", "o", "m", "/", "d", "o", "c", "s", "/", "a">>,
                 <<"/", "d", "o", "c", "s", "/", "b">>,
                 <<"d", "o", "c", "s", "/", "b">>,
                 <<"/", "/", "x", ".", "c", "o", "m", "/", "a", "p", "i", "/", "r">>,
                 <<"f", "t", "p", ":", "/", "/", "x", ".", "c", "o", "m", "/", "g", "u", "i", "d", "e", "/", "f">> >>],
      \* no link matches a rule
      [target |-> <<"h", "t", "t", "p", "s", ":", "/", "/", "x", ".", "c", "o", "m">>,
       links |-> << <<"h", "t", "t", "p", "s", ":", "/", "/", "x", ".", "c", "o", "m", "/", "b", "l", "o", "g", "/", "p">>,
                   <<"h", "t", "t", "p", "s", ":", "/", "/", "x", ".", "c", "o", "m", "/", "a", "b", "o", "u", "t">> >>,
       map |-> << <<"h", "t", "t", "p", "s", ":", "/", "/", "x", ".", "c", "o", "m", "/", "b", "l", "o", "g", "/", "p">> >>],
      \* nothing on the target's host
      [target |-> <<"h", "t", "t", "p", "s", ":", "/", "/", "x", ".", "c", "o", "m">>,
       links |-> <<>>,
       map |-> << <<"h", "t", "t", "p", "s", ":", "/", "/", "y", ".", "c", "o", "m", "/", "d", "o", "c", "s", "/", "a">> >>],
      \* one page under several spellings
      [target |-> <<"h", "t", "t", "p", "s", ":", "/", "/", "x", ".", "c", "o", "m", "/">>,
       links |-> << <<"h", "t", "t", "p", ":", "/", "/", "x", ".", "c", "o", "m", "/", "d", "o", "c", "s", "/", "a", "/">>,
                   <<"h", "t", "t", "p", "s", ":", "/", "/", "x", ".", "c", "o", "m", "/", "d", "o", "c", "s", "/", "a", "?", "q", "=", "1">> >>,
       map |-> << <<"h", "t", "t", "p", "s", ":", "/", "/", "x", ".", "c", "o", "m", "/", "d", "o", "c", "s", "/", "a", "#", "f", "r", "a", "g">>,
                 <<"h", "t", "t", "p", "s", ":", "/", "/", "x", ".", "c", "o", "m", "/", "d", "o", "c", "s", "/", "a", "/", "/">> >>],
      \* the target is among the links
      [target |-> <<"h", "t", "t", "p", "s", ":", "/", "/", "x", ".", "c", "o", "m", "/", "d", "o", "c", "s">>,
       links |-> << <<"h", "t", "t", "p", "s", ":", "/", "/", "x", ".", "c", "o", "m", "/", "d", "o", "c", "s", "/">>,
                   <<"h", "t", "t", "p", "s", ":", "/", "/", "x", ".", "c", "o", "m", "/", "d", "o", "c", "s", "/", "a">> >>,
       map |-> << <<"h", "t", "t", "p", "s", ":", "/", "/", "x", ".", "c", "o", "m", "/", "d", "o", "c", "s">> >>],
      \* substring and case of the match
      [target |-> <<"h", "t", "t", "p", "s", ":", "/", "/", "x", ".", "c", "o", "m">>,
       links |-> << <<"h", "t", "t", "p", "s", ":", "/", "/", "x", ".", "c", "o", "m", "/", "A", "P", "I", "/", "R", "e", "f">>,
                   <<"h", "t", "t", "p", "s", ":", "/", "/", "x", ".", "c", "o", "m", "/", "x", "/", "d", "o", "c", "s", "/", "y">>,
                   <<"h", "t", "t", "p", "s", ":", "/", "/", "x", ".", "c", "o", "m", "/", "d", "o", "c", "s", "y">> >>,
       map |-> << <<"h", "t", "t", "p", "s", ":", "/", "/", "x", ".", "c", "o", "m", "/", "l", "e", "a", "r", "n", "i", "n", "g">>,
                 <<"h", "t", "t", "p", "s", ":", "/", "/", "x", ".", "c", "o", "m", "/", "l", "e", "a", "r", "n">> >>],
      \* paths that give one file name
      [target |-> <<"h", "t", "t", "p", "s", ":", "/", "/", "x", ".", "c", "o", "m">>,
       links |-> << <<"h", "t", "t", "p", "s", ":", "/", "/", "x", ".", "c", "o", "m", "/", "d", "o", "c", "s", "/", "a", "/", "b">>,
                   <<"h", "t", "t", "p", "s", ":", "/", "/", "x", ".", "c", "o", "m", "/", "d", "o", "c", "s", "/", "a", "-", "b">> >>,
       map |-> << <<"h", "t", "t", "p", "s", ":", "/", "/", "x", ".", "c", "o", "m", "/", "d", "o", "c", "s", "/", "a", "%", "2", "F", "b">>,
                 <<"h", "t", "t", "p", "s", ":", "/", "/", "x", ".", "c", "o", "m", "/">> >>],
      \* a github.io host
      [target |-> <<"h", "t", "t", "p", "s", ":", "/", "/", "a", ".", "g", "i", "t", "h", "u", "b", ".", "i", "o", "/", "p">>,
       links |-> << <<"h", "t", "t", "p", "s", ":", "/", "/", "a", ".", "g", "i", "t", "h", "u", "b", ".", "i", "o", "/", "b", "l", "o", "g", "/", "p">>,
                   <<"h", "t", "t", "p", "s", ":", "/", "/", "a", ".", "g", "i", "t", "h", "u", "b", ".", "i", "o", "/">> >>,
       map |-> << <<"h", "t", "t", "p", "s", ":", "/", "/", "a", ".", "g", "i", "t", "h", "u", "b", ".", "i", "o", "/", "p", "/">> >>],
      \* a readthedocs host
      [target |-> <<"h", "t", "t", "p", "s", ":", "/", "/", "p", ".", "r", "e", "a", "d", "t", "h", "e", "d", "o", "c", "s", ".", "i", "o">>,
       links |-> << <<"h", "t", "t", "p", "s", ":", "/", "/", "p", ".", "r", "e", "a", "d", "t", "h", "e", "d", "o", "c", "s", ".", "i", "o", "/", "e", "n", "/", "a">>,
                   <<"h", "t", "t", "p", "s", ":", "/", "/", "p", ".", "r", "e", "a", "d", "t", "h", "e", "d", "o", "c", "s", ".", "i", "o", "/", "b", "l", "o", "g", "/", "p">> >>,
       map |-> << <<"h", "t", "t", "p", "s", ":", "/", "/", "p", ".", "r", "e", "a", "d", "t", "h", "e", "d", "o", "c", "s", ".", "i", "o", "/", "l", "a", "t", "e", "s", "t", "/", "b">> >>],
      \* react.dev
      [target |-> <<"h", "t", "t", "p", "s", ":", "/", "/", "r", "e", "a", "c", "t", ".", "d", "e", "v">>,
       links |-> << <<"h", "t", "t", "p", "s", ":", "/", "/", "r", "e", "a", "c", "t", ".", "d", "e", "v", "/", "b", "l", "o", "g">>,
                   <<"h", "t", "t", "p", "s", ":", "/", "/", "r", "e", "a", "c", "t", ".", "d", "e", "v", "/", "c", "o", "m", "m", "u", "n", "i", "t", "y">> >>,
       map |-> << <<"h", "t", "t", "p", "s", ":", "/", "/", "r", "e", "a", "c", "t", ".", "d", "e", "v">> >>],
      \* eleven documentation pages
      [target |-> <<"h", "t", "t", "p", "s", ":", "/", "/", "x", ".", "c", "o", "m">>,
       links |-> << <<"h", "t", "t", "p", "s", ":", "/", "/", "x", ".", "c", "o", "m", "/", "d", "o", "c", "s", "/", "a">>,
                   <<"h", "t", "t", "p", "s", ":", "/", "/", "x", ".", "c", "o", "m", "/", "b", "l", "o", "g", "/", "p">>,
                   <<"h", "t", "t", "p", "s", ":", "/", "/", "x", ".", "c", "o", "m", "/", "d", "o", "c", "s", "/", "9">>,
                   <<"h", "t", "t", "p", "s", ":", "/", "/", "x", ".", "c", "o", "m", "/", "d", "o", "c", "s", "/", "8">> >>,
       map |-> << <<"h", "t", "t", "p", "s", ":", "/", "/", "x", ".", "c", "o", "m", "/", "d", "o", "c", "s", "/", "7">>,
                 <<"h", "t", "t", "p", "s", ":", "/", "/", "x", ".", "c", "o", "m", "/", "d", "o", "c", "s", "/", "6">>,
                 <<"h", "t", "t", "p", "s", ":", "/", "/", "x", ".", "c", "o", "m", "/", "d", "o", "c", "s", "/", "5">>,
                 <<"h", "t", "t", "p", "s", ":", "/", "/", "x", ".", "c", "o", "m", "/", "d", "o", "c", "s", "/", "4">>,
                 <<"h", "t", "t", "p", "s", ":", "/", "/", "x", ".", "c", "o", "m", "/", "d", "o", "c", "s", "/", "3">>,
                 <<"h", "t", "t", "p", "s", ":", "/", "/", "x", ".", "c", "o", "m", "/", "d", "o", "c", "s", "/", "2">>,
                 <<"h", "t", "t", "p", "s", ":", "/", "/", "x", ".", "c", "o", "m", "/", "d", "o", "c", "s", "/", "1">>,
                 <<"h", "t", "t", "p", "s", ":", "/", "/", "x", ".", "c", "o", "m", "/", "d", "o", "c", "s", "/", "B">>,
                 <<"h", "t", "t", "p", "s", ":", "/", "/", "x", ".", "c", "o", "m", "/", "d", "o", "c", "s", "/", "a">> >>],
      \* eleven pages, none matching a rule
      [target |-> <<"h", "t", "t", "p", "s", ":", "/", "/", "x", ".", "c", "o", "m">>,
       links |-> << <<"h", "t", "t", "p", "s", ":", "/", "/", "x", ".", "c", "o", "m", "/", "p", "/", "9">>,
                   <<"h", "t", "t", "p", "s", ":", "/", "/", "x", ".", "c", "o", "m", "/", "p", "/", "8">>,
                   <<"h", "t", "t", "p", "s", ":", "/", "/", "x", ".", "c", "o", "m", "/", "a", "b", "o", "u", "t">> >>,
       map |-> << <<"h", "t", "t", "p", "s", ":", "/", "/", "x", ".", "c", "o", "m", "/", "p", "/", "7">>,
                 <<"h", "t", "t", "p", "s", ":", "/", "/", "x", ".", "c", "o", "m", "/", "p", "/", "6">>,
                 <<"h", "t", "t", "p", "s", ":", "/", "/", "x", ".", "c", "o", "m", "/", "p", "/", "5">>,
                 <<"h", "t", "t", "p", "s", ":", "/", "/", "x", ".", "c", "o", "m", "/", "p", "/", "4">>,
                 <<"h", "t", "t", "p", "s", ":", "/", "/", "x", ".", "c", "o", "m", "/", "p", "/", "3">>,
                 <<"h", "t", "t", "p", "s", ":", "/", "/", "x", ".", "c", "o", "m", "/", "p", "/", "2">>,
                 <<"h", "t", "t", "p", "s", ":", "/", "/", "x", ".", "c", "o", "m", "/", "p", "/", "1">>,
                 <<"h", "t", "t", "p", "s", ":", "/", "/", "x", ".", "c", "o", "m", "/", "P">> >>]
    >>

\* The text of the errors the service raises (str(e)).
RateLimitTexts == { <<"c", "o", "d", "e", " ", "4", "2", "9">>, <<"4", "2", "9">> }
OtherTexts == { <<"c", "o", "d", "e", " ", "5", "0", "0">>, <<"t", "i", "m", "e", "d", " ", "o", "u", "t">>, <<"c", "o", "d", "e", " ", "4", "2", " ", "9", " ", "4", "0", "2", "9">> }

\* What a page's scrape returns: the text of the page requested, or nothing.
Empty == <<>>
Markdown(u) == <<"markdown", u>>
Html(u) == <<"html", u>>

(***************************************************************************)
(* State                                                                   *)
(***************************************************************************)
VARIABLES
    pc,               \* where the run is: "cli", "scrape", "map", "cap",
                      \* "fetch", "returned", "exited", "aborted"; "unit"
                      \* when retry_with_backoff runs on its own
    site,             \* the index in Scenarios of the run's inputs
    test_mode,        \* --test
    api_key,          \* whether an API key is given (option or environment)
    url,              \* crawl's url after normalize_url
    base_domain,      \* crawl's base_domain
    retry,            \* the retry_with_backoff call in progress
    initial_scrape,   \* the markdown and html of the initial scrape
    initial_urls,     \* crawl's initial_urls
    all_urls,         \* crawl's all_urls
    doc_urls,         \* crawl's doc_urls
    idx,              \* the place of page_url in doc_urls
    pages,            \* crawl's pages, in insertion order
    scraped,          \* the URLs a per-page scrape_url was called with
    failed,           \* the URLs whose per-page fetch raised
    exhausted,        \* the last call that raised a rate-limit error after
                      \* max_retries: "none", "scrape_url", "map_url", "page"
    fatal,            \* the call whose error ended the run, if one did
    faults,           \* the answers so far that failed or lacked content
    files,            \* the files written: path |-> text
    manifest,         \* manifest['pages'] as written to manifest.json
    manifest_written, \* whether manifest.json was written
    arg,              \* the argument of a function called on its own
    results,          \* what the calls of that function returned, in order
    writes,           \* the paths write_text was called on, in order
    metered,          \* whether the run's service calls are counted
    service_calls     \* the calls of scrape_url and map_url so far, if counted

vars ==
    << pc, site, test_mode, api_key, url, base_domain, retry, initial_scrape,
       initial_urls, all_urls, doc_urls, idx, pages, scraped, failed,
       exhausted, fatal, faults, files, manifest, manifest_written, arg,
       results, writes, metered, service_calls >>

(***************************************************************************)
(* retry_with_backoff                                                      *)
(***************************************************************************)
\* max_retries=5, the default every call of crawl uses.
DefaultMaxRetries == 5

\* Times are in hundred-thousandths of a second; random.random() is in
\* thousandths.
Second == 100000
RandomUnit == 1000

\* What random.random() may return, in thousandths: a float of [0, 1).
RandomSamples == {0, 250, 500, 750, 999}

\* base_delay=1, and the 300 of min(300, ...), in seconds
BaseDelay == 1
MaxDelay == 300

\* exponential_backoff without "min(300, ...)": the delay keeps doubling.
exponential_backoff_uncapped(attempt, random) ==
    LET delay == BaseDelay * 2^attempt
        jitter == delay * (Second \div (10 * RandomUnit)) * (random * 2 - RandomUnit)
    IN  delay * Second + jitter

\* exponential_backoff(attempt), in units of 1/Second, when random.random()
\* returns random: jitter = delay * 0.1 * (random * 2 - 1).
exponential_backoff(attempt, random) ==
    LET delay == IF BaseDelay * 2^attempt < MaxDelay
                 THEN BaseDelay * 2^attempt ELSE MaxDelay
        jitter == delay * (Second \div (10 * RandomUnit)) * (random * 2 - RandomUnit)
    IN  delay * Second + jitter

\* A call of retry_with_backoff before func is first invoked.  calls, sleeps,
\* limited and delay record what happened: the invocations of func, the
\* time.sleep calls, the rate-limit errors func raised, the time of the last
\* sleep.
RetryStart(max_retries) ==
    [attempt |-> 0, max_retries |-> max_retries, status |-> "running",
     value |-> <<>>, error |-> <<>>,
     calls |-> 0, sleeps |-> 0, limited |-> 0, delay |-> 0]

\* The outcomes of one invocation of func, each with what random.random()
\* returns if the turn comes to sleep (in a run: the middle, no jitter).
Returned(v) == [kind |-> "value", val |-> v, text |-> <<>>, random |-> 500]
Raised(t) == [kind |-> "error", val |-> <<>>, text |-> t, random |-> 500]

\* retry_with_backoff with "except Exception" retrying whatever was raised.
retry_any_error(r, o) ==
    LET invoked == [r EXCEPT !.calls = @ + 1,
                             !.limited = IF o.kind = "error" /\ o.text \in RateLimitTexts
                                         THEN @ + 1 ELSE @]
    IN  IF o.kind = "value"
        THEN [invoked EXCEPT !.status = "returned", !.value = o.val]
        ELSE IF r.attempt >= r.max_retries
        THEN [invoked EXCEPT !.status = "raised", !.error = o.text]
        ELSE [invoked EXCEPT !.sleeps = @ + 1, !.attempt = @ + 1,
                                 !.delay = exponential_backoff(r.attempt, o.random)]

\* retry_with_backoff with "attempt > max_retries": one retry too many.
retry_once_more(r, o) ==
    LET invoked == [r EXCEPT !.calls = @ + 1,
                             !.limited = IF o.kind = "error" /\ o.text \in RateLimitTexts
                                         THEN @ + 1 ELSE @]
    IN  IF o.kind = "value"
        THEN [invoked EXCEPT !.status = "returned", !.value = o.val]
        ELSE IF Contains(o.text, <<"4", "2", "9">>)
        THEN IF r.attempt > r.max_retries
             THEN [invoked EXCEPT !.status = "raised", !.error = o.text]
             ELSE [invoked EXCEPT !.sleeps = @ + 1, !.attempt = @ + 1,
                                 !.delay = exponential_backoff(r.attempt, o.random)]
        ELSE [invoked EXCEPT !.status = "raised", !.error = o.text]

\* retry_with_backoff with "attempt + 1 >= max_retries": it gives up one
\* retry early.
retry_gives_up_early(r, o) ==
    LET invoked == [r EXCEPT !.calls = @ + 1,
                             !.limited = IF o.kind = "error" /\ o.text \in RateLimitTexts
                                         THEN @ + 1 ELSE @]
    IN  IF o.kind = "value"
        THEN [invoked EXCEPT !.status = "returned", !.value = o.val]
        ELSE IF Contains(o.text, <<"4", "2", "9">>)
        THEN IF r.attempt + 1 >= r.max_retries
             THEN [invoked EXCEPT !.status = "raised", !.error = o.text]
             ELSE [invoked EXCEPT !.sleeps = @ + 1, !.attempt = @ + 1,
                                 !.delay = exponential_backoff(r.attempt, o.random)]
        ELSE [invoked EXCEPT !.status = "raised", !.error = o.text]

\* retry_with_backoff without "if attempt >= max_retries: raise": a
\* rate-limit error is retried however often it has been.
retry_without_limit(r, o) ==
    LET invoked == [r EXCEPT !.calls = @ + 1,
                             !.limited = IF o.kind = "error" /\ o.text \in RateLimitTexts
                                         THEN @ + 1 ELSE @]
    IN  IF o.kind = "value"
        THEN [invoked EXCEPT !.status = "returned", !.value = o.val]
        ELSE IF Contains(o.text, <<"4", "2", "9">>)
        THEN [invoked EXCEPT !.sleeps = @ + 1, !.attempt = @ + 1,
                             !.delay = exponential_backoff(r.attempt, o.random)]
        ELSE [invoked EXCEPT !.status = "raised", !.error = o.text]

\* One turn of the loop of retry_with_backoff: func() is invoked and has
\* outcome o.  A rate-limited turn below max_retries includes its sleep.
retry_with_backoff(r, o) ==
    LET invoked == [r EXCEPT !.calls = @ + 1,
                             !.limited = IF o.kind = "error" /\ o.text \in RateLimitTexts
                                         THEN @ + 1 ELSE @]
    IN  IF o.kind = "value"
        THEN [invoked EXCEPT !.status = "returned", !.value = o.val]
        ELSE IF Contains(o.text, <<"4", "2", "9">>)
        THEN IF r.attempt >= r.max_retries
             THEN [invoked EXCEPT !.status = "raised", !.error = o.text]
             ELSE [invoked EXCEPT !.sleeps = @ + 1, !.attempt = @ + 1,
                                 !.delay = exponential_backoff(r.attempt, o.random)]
        ELSE [invoked EXCEPT !.status = "raised", !.error = o.text]

(***************************************************************************)
(* Lists, sets and dicts of the run                                        *)
(***************************************************************************)
Range(q) == {q[i] : i \in 1..Len(q)}

\* sorted(q) for a list of strings.
RECURSIVE sorted(_)
sorted(q) ==
    IF q = <<>> THEN <<>>
    ELSE LET rest == sorted(Tail(q))
             k == Cardinality({i \in 1..Len(rest) : ~StrLess(Head(q), rest[i])})
         IN  SubSeq(rest, 1, k) \o <<Head(q)>> \o SubSeq(rest, k + 1, Len(rest))

Reverse(q) == [i \in 1..Len(q) |-> q[Len(q) + 1 - i]]

RECURSIVE Orderings(_)
Orderings(S) ==
    IF S = {} THEN {<<>>}
    ELSE UNION {{<<x>> \o q : q \in Orderings(S \ {x})} : x \in S}

RECURSIVE SetToSeq(_)
SetToSeq(S) ==
    IF S = {} THEN <<>>
    ELSE LET x == CHOOSE y \in S : TRUE IN <<x>> \o SetToSeq(S \ {x})

\* The orders in which Python may iterate the set S (the order of a set of
\* strings is not fixed): every order of a small set, two of a larger one.
IterationOrders(S) ==
    IF Cardinality(S) <= MaxPermuted THEN Orderings(S)
    ELSE {sorted(SetToSeq(S)), Reverse(sorted(SetToSeq(S)))}

\* InternalLinks with "netloc.endswith(base_domain)": subdomains pass.
InternalLinks_subdomains(links, domain) ==
    LET kept == SelectSeq(links, LAMBDA u : EndsWith(urlparse(u).netloc, domain))
    IN  [i \in 1..Len(kept) |-> normalize_url(kept[i])]

\* InternalLinks without normalize_url: the links are kept as spelled.
InternalLinks_as_spelled(links, domain) ==
    SelectSeq(links, LAMBDA u : urlparse(u).netloc = domain)

\* [normalize_url(u) for u in links if urlparse(u).netloc == base_domain]
InternalLinks(links, domain) ==
    LET kept == SelectSeq(links, LAMBDA u : urlparse(u).netloc = domain)
    IN  [i \in 1..Len(kept) |-> normalize_url(kept[i])]

\* Classify without lines 215-218: no fallback to all_urls.
Classify_no_fallback(order, doc_patterns) ==
    SelectSeq(order, LAMBDA u : MatchesAny(doc_patterns, u))

\* Lines 206-218: the URLs of all_urls, iterated in the given order, that
\* match a rule; all of them when none does.
Classify(order, doc_patterns) ==
    LET matching == SelectSeq(order, LAMBDA u : MatchesAny(doc_patterns, u))
    IN  IF matching = <<>> THEN order ELSE matching

\* test mode keeps at most this many URLs
TestLimit == 10

\* CapForTest with "doc_urls[:10]": truncated, not sorted.
CapForTest_unsorted(urls, test) ==
    IF test /\ Len(urls) > TestLimit
    THEN SubSeq(urls, 1, TestLimit)
    ELSE urls

\* Lines 220-223.
CapForTest(urls, test) ==
    IF test /\ Len(urls) > TestLimit
    THEN SubSeq(sorted(urls), 1, TestLimit)
    ELSE urls

\* SkipTarget without "if page_url == url: continue": the target is fetched
\* again like any other candidate.
SkipTarget_none(urls, i, target) == i

\* The place of the next URL of urls, from place i on, that the loop of
\* crawl fetches: "if page_url == url: continue".
RECURSIVE SkipTarget(_, _, _)
SkipTarget(urls, i, target) ==
    IF i <= Len(urls) /\ urls[i] = target
    THEN SkipTarget(urls, i + 1, target)
    ELSE i

\* pages[u] = page for a dict kept in insertion order.
DictSet(d, page) ==
    IF \E i \in 1..Len(d) : d[i].url = page.url
    THEN [i \in 1..Len(d) |-> IF d[i].url = page.url THEN page ELSE d[i]]
    ELSE Append(d, page)

(***************************************************************************)
(* save_results                                                            *)
(***************************************************************************)
MdSuffix == <<".", "m", "d">>
HtmlDir == <<"h", "t", "m", "l", "/">>
HtmlSuffix == <<".", "h", "t", "m", "l">>

\* path.write_text(text): the file holds text, whatever it held before.
WriteText(fs, path, text) ==
    {f \in fs : f.path # path} \cup {[path |-> path, text |-> text]}

\* The two branches of the loop body of save_results for a page with
\* content: the markdown file and the page's manifest entry, then the html
\* file and, if the page has an entry, its html_file.  writes lists the
\* paths in the order they are written.
WritePage(st, page, md_file, html_file) ==
    LET md == IF page.markdown # Empty
              THEN [files |-> WriteText(st.files, md_file, page.markdown),
                    manifest |->
                       {e \in st.manifest : e.url # page.url} \cup
                       {[url |-> page.url, markdown_file |-> md_file,
                         html_file |-> <<>>]},
                    writes |-> Append(st.writes, md_file)]
              ELSE st
    IN  IF page.html # Empty
        THEN [files |-> WriteText(md.files, html_file, page.html),
              manifest |->
                 {IF e.url = page.url
                  THEN [e EXCEPT !.html_file = html_file] ELSE e
                  : e \in md.manifest},
              writes |-> Append(md.writes, html_file)]
        ELSE md

\* What the loop body of save_results does for one page to the files and to
\* manifest['pages'].
SavePage(st, page) ==
    IF page.markdown = Empty /\ page.html = Empty
    THEN st
    ELSE WritePage(st, page,
                   sanitize_filename(page.url) \o MdSuffix,
                   HtmlDir \o sanitize_filename(page.url) \o HtmlSuffix)

RECURSIVE SavePages(_, _)
SavePages(st, ps) ==
    IF ps = <<>> THEN st ELSE SavePages(SavePage(st, Head(ps)), Tail(ps))

\* output_dir / 'manifest.json'
ManifestFile == <<"m", "a", "n", "i", "f", "e", "s", "t", ".", "j", "s", "o", "n">>

\* save_results with the manifest written before the loop over the pages.
save_results_manifest_first(ps) ==
    IF ps = <<>>
    THEN [files |-> {}, manifest |-> {}, manifest_written |-> FALSE,
          writes |-> <<>>]
    ELSE LET st == SavePages([files |-> {}, manifest |-> {},
                              writes |-> <<ManifestFile>>], ps)
         IN  [files |-> st.files, manifest |-> st.manifest,
              manifest_written |-> TRUE, writes |-> st.writes]

\* save_results(crawl_status, output_dir): without pages it returns before
\* anything is written; otherwise every page is saved and then manifest.json.
save_results(ps) ==
    IF ps = <<>>
    THEN [files |-> {}, manifest |-> {}, manifest_written |-> FALSE,
          writes |-> <<>>]
    ELSE LET st == SavePages([files |-> {}, manifest |-> {}, writes |-> <<>>], ps)
         IN  [files |-> st.files, manifest |-> st.manifest,
              manifest_written |-> TRUE,
              writes |-> Append(st.writes, ManifestFile)]

(***************************************************************************)
(* The run: cli.crawl, DocCrawler.__init__, DocCrawler.crawl               *)
(***************************************************************************)
\* The sites of more links than test mode keeps.
BulkSites ==
    {i \in 1..Len(Scenarios) :
        Len(Scenarios[i].links) + Len(Scenarios[i].map) > TestLimit}

FaultLimit == IF site \in BulkSites THEN MaxBulkFaults ELSE MaxFaults

\* A run starts in main.py's crawl, on one of the given sites; m says
\* whether the calls of the fetch service are counted.
InitRun(sites, m) ==
    /\ pc = "cli"
    /\ site \in sites
    /\ test_mode \in BOOLEAN
    /\ api_key \in BOOLEAN
    /\ url = <<>>
    /\ base_domain = <<>>
    /\ retry = RetryStart(DefaultMaxRetries)
    /\ initial_scrape = [markdown |-> Empty, html |-> Empty]
    /\ initial_urls = <<>>
    /\ all_urls = {}
    /\ doc_urls = <<>>
    /\ idx = 1
    /\ pages = <<>>
    /\ scraped = {}
    /\ failed = {}
    /\ exhausted = "none"
    /\ fatal = "none"
    /\ faults = 0
    /\ files = {}
    /\ manifest = {}
    /\ manifest_written = FALSE
    /\ arg = <<>>
    /\ results = <<>>
    /\ writes = <<>>
    /\ metered = m
    /\ service_calls = 0

InitOn(sites) == InitRun(sites, FALSE)

Init == InitOn((1..Len(Scenarios)) \ BulkSites)

InitBulk == InitOn(BulkSites)

ErrorOutcomes == {Raised(t) : t \in RateLimitTexts \cup OtherTexts}

\* scrape_url(u, ...) raises, or returns the page's markdown and html, each
\* possibly missing, and the links the caller's site has for it.
ScrapeOutcomes(u, links) ==
    ErrorOutcomes \cup
    {Returned([markdown |-> m, html |-> h, links |-> links]) :
        m \in {Empty, Markdown(u)}, h \in {Empty, Html(u)}}

\* map_url(url, ...) raises or returns links.
MapOutcomes(links) == ErrorOutcomes \cup {Returned([links |-> links])}

\* Whether an answer counts against MaxFaults: the call raised for good, or
\* the page came without markdown or without html.
Fault(r, o) ==
    IF r.status = "raised" THEN 1
    ELSE IF r.status = "returned"
            /\ (o.val.markdown = Empty \/ o.val.html = Empty) THEN 1
    ELSE 0

\* The call raised a rate-limit error: its retries are used up.
Exhausted(r) == r.status = "raised" /\ r.error \in RateLimitTexts

\* Construct without "if not self.api_key: raise ValueError": the run starts
\* with or without a key.
Construct_unchecked ==
    /\ pc = "cli"
    /\ url' = normalize_url(Scenarios[site].target)
    /\ base_domain' = urlparse(normalize_url(Scenarios[site].target)).netloc
    /\ pc' = "scrape"
    /\ UNCHANGED << site, test_mode, api_key, arg, results, retry,
                    initial_scrape, initial_urls, all_urls, doc_urls, idx,
                    pages, scraped, failed, exhausted, fatal, faults, files,
                    manifest, manifest_written, metered, writes,
                    service_calls >>

\* crawl of main.py up to the first call of the service: DocCrawler(api_key)
\* raises ValueError without a key, which crawl turns into click.Abort();
\* otherwise DocCrawler.crawl normalizes the URL (lines 155-157).
Construct ==
    /\ pc = "cli"
    /\ IF api_key
       THEN /\ url' = normalize_url(Scenarios[site].target)
            /\ base_domain' = urlparse(normalize_url(Scenarios[site].target)).netloc
            /\ pc' = "scrape"
            /\ fatal' = fatal
       ELSE /\ pc' = "aborted"
            /\ fatal' = "api_key"
            /\ UNCHANGED <<url, base_domain>>
    /\ UNCHANGED << site, test_mode, api_key, arg, results, retry,
                    initial_scrape, initial_urls, all_urls, doc_urls, idx, pages, scraped,
                    failed, exhausted, faults, files, manifest,
                    manifest_written, metered, writes, service_calls >>

\* DiscoveryRaised with the error only printed: the run goes on with what
\* it has.
DiscoveryRaised_goes_on(r, call) ==
    /\ pc' = "cap"
    /\ fatal' = call
    /\ retry' = RetryStart(DefaultMaxRetries)
    /\ exhausted' = IF Exhausted(r) THEN call ELSE exhausted
    /\ UNCHANGED << site, test_mode, api_key, arg, results, url, base_domain,
                    initial_scrape, initial_urls, all_urls, doc_urls, idx,
                    pages, scraped, failed, faults, files, manifest,
                    manifest_written, metered, writes >>

\* DiscoveryRaised with "return" for "sys.exit(1)": the error is printed and
\* crawl returns.
DiscoveryRaised_returns(r, call) ==
    /\ pc' = "returned"
    /\ fatal' = call
    /\ retry' = r
    /\ exhausted' = IF Exhausted(r) THEN call ELSE exhausted
    /\ UNCHANGED << site, test_mode, api_key, arg, results, url, base_domain,
                    initial_scrape, initial_urls, all_urls, doc_urls, idx,
                    pages, scraped, failed, faults, files, manifest,
                    manifest_written, metered, writes >>

\* Lines 279-281: an error of the discovery phase ends the run, sys.exit(1).
DiscoveryRaised(r, call) ==
    /\ pc' = "exited"
    /\ fatal' = call
    /\ retry' = r
    /\ exhausted' = IF Exhausted(r) THEN call ELSE exhausted
    /\ UNCHANGED << site, test_mode, api_key, arg, results, url, base_domain,
                    initial_scrape, initial_urls, all_urls, doc_urls, idx,
                    pages, scraped, failed, faults, files, manifest,
                    manifest_written, metered, writes >>

\* A rate-limited turn of a call that is retried: nothing but the retry
\* state changes.
Retrying(r) ==
    /\ retry' = r
    /\ UNCHANGED << pc, site, test_mode, api_key, arg, results, url,
                    base_domain, initial_scrape, initial_urls, all_urls, doc_urls, idx,
                    pages, scraped, failed, exhausted, fatal, faults, files,
                    manifest, manifest_written, metered, writes >>

\* Lines 162-175, once the initial scrape has outcome o.
InitialStep(r, o) ==
    CASE r.status = "running" -> Retrying(r)
      [] r.status = "raised" -> DiscoveryRaised(r, "scrape_url")
      [] r.status = "returned" ->
            /\ initial_scrape' = [markdown |-> o.val.markdown, html |-> o.val.html]
            /\ initial_urls' = InternalLinks(o.val.links, base_domain)
            /\ faults' = faults + Fault(r, o)
            /\ retry' = RetryStart(DefaultMaxRetries)
            /\ pc' = "map"
            /\ UNCHANGED << site, test_mode, api_key, arg, results, url,
                            base_domain, all_urls, doc_urls, idx, pages, scraped, failed,
                            exhausted, fatal, files, manifest,
                            manifest_written, metered, writes >>

\* One more call of scrape_url or map_url, counted in a metered run.
ServiceCalled ==
    service_calls' = IF metered THEN service_calls + 1 ELSE service_calls

\* One invocation of the initial scrape_url by retry_with_backoff.
ScrapeInitial ==
    /\ pc = "scrape"
    /\ ServiceCalled
    /\ \E o \in ScrapeOutcomes(url, Scenarios[site].links) :
          LET r == retry_with_backoff(retry, o)
          IN  /\ faults + Fault(r, o) <= FaultLimit \/ r.status = "raised"
              /\ InitialStep(r, o)

\* Lines 183-218, once map_url has outcome o: the site's URLs and, in one of
\* the orders the set may be iterated in, those that classify as
\* documentation.
MapStep(r, o) ==
    CASE r.status = "running" -> Retrying(r)
      [] r.status = "raised" -> DiscoveryRaised(r, "map_url")
      [] r.status = "returned" ->
            LET found == Range(initial_urls \o InternalLinks(o.val.links, base_domain))
            IN  /\ all_urls' = found
                /\ \E order \in IterationOrders(found) :
                      doc_urls' = Classify(order, get_docs_patterns(url))
                /\ retry' = RetryStart(DefaultMaxRetries)
                /\ pc' = "cap"
                /\ UNCHANGED << site, test_mode, api_key, arg, results, url,
                                base_domain, initial_scrape, initial_urls, idx, pages,
                                scraped, failed, exhausted, fatal, faults,
                                files, manifest, manifest_written,
                                metered, writes >>

\* One invocation of map_url by retry_with_backoff.
MapSite ==
    /\ pc = "map"
    /\ ServiceCalled
    /\ \E o \in MapOutcomes(Scenarios[site].map) :
          MapStep(retry_with_backoff(retry, o), o)

\* Lines 220-236: the test-mode cap, and the initial page as first page when
\* it has markdown or html; the loop then stands at its first URL.
Cap ==
    /\ pc = "cap"
    /\ doc_urls' = CapForTest(doc_urls, test_mode)
    /\ pages' = IF initial_scrape.markdown # Empty \/ initial_scrape.html # Empty
                THEN << [url |-> url, markdown |-> initial_scrape.markdown,
                         html |-> initial_scrape.html] >>
                ELSE <<>>
    /\ idx' = SkipTarget(CapForTest(doc_urls, test_mode), 1, url)
    /\ pc' = "fetch"
    /\ UNCHANGED << site, test_mode, api_key, arg, results, url, base_domain,
                    retry, initial_scrape, initial_urls, all_urls, scraped, failed,
                    exhausted, fatal, faults, files, manifest,
                    manifest_written, metered, writes, service_calls >>

\* PageStep without the try of lines 244-271: a page's error reaches the
\* outer except and ends the run.
PageStep_aborts(r, o, page_url) ==
    CASE r.status = "running" ->
            /\ retry' = r
            /\ scraped' = scraped \cup {page_url}
            /\ UNCHANGED << pc, site, test_mode, api_key, arg, results, url,
                            base_domain, initial_scrape, initial_urls, all_urls, doc_urls,
                            idx, pages, failed, exhausted, fatal, faults,
                            files, manifest, manifest_written,
                            metered, writes >>
      [] r.status = "raised" ->
            /\ failed' = failed \cup {page_url}
            /\ exhausted' = IF Exhausted(r) THEN "page" ELSE exhausted
            /\ scraped' = scraped \cup {page_url}
            /\ faults' = faults + Fault(r, o)
            /\ pc' = "exited"
            /\ retry' = r
            /\ UNCHANGED << site, test_mode, api_key, arg, results, url,
                            base_domain, initial_scrape, initial_urls, all_urls, doc_urls,
                            idx, pages, fatal, files, manifest,
                            manifest_written, metered, writes >>
      [] r.status = "returned" ->
            /\ pages' = DictSet(pages, [url |-> page_url,
                                        markdown |-> o.val.markdown,
                                        html |-> o.val.html])
            /\ scraped' = scraped \cup {page_url}
            /\ faults' = faults + Fault(r, o)
            /\ idx' = SkipTarget(doc_urls, idx + 1, url)
            /\ retry' = RetryStart(DefaultMaxRetries)
            /\ UNCHANGED << pc, site, test_mode, api_key, arg, results, url,
                            base_domain, initial_scrape, initial_urls, all_urls, doc_urls,
                            failed, exhausted, fatal, files, manifest,
                            manifest_written, metered, writes >>

\* Lines 244-271, once the scrape of page_url has outcome o: the page is
\* stored, or its error is printed, and the loop goes on to the next URL.
PageStep(r, o, page_url) ==
    CASE r.status = "running" ->
            /\ retry' = r
            /\ scraped' = scraped \cup {page_url}
            /\ UNCHANGED << pc, site, test_mode, api_key, arg, results, url,
                            base_domain, initial_scrape, initial_urls, all_urls, doc_urls,
                            idx, pages, failed, exhausted, fatal, faults,
                            files, manifest, manifest_written,
                            metered, writes >>
      [] r.status = "raised" ->
            /\ failed' = failed \cup {page_url}
            /\ exhausted' = IF Exhausted(r) THEN "page" ELSE exhausted
            /\ scraped' = scraped \cup {page_url}
            /\ faults' = faults + Fault(r, o)
            /\ idx' = SkipTarget(doc_urls, idx + 1, url)
            /\ retry' = RetryStart(DefaultMaxRetries)
            /\ UNCHANGED << pc, site, test_mode, api_key, arg, results, url,
                            base_domain, initial_scrape, initial_urls, all_urls, doc_urls,
                            pages, fatal, files, manifest,
                            manifest_written, metered, writes >>
      [] r.status = "returned" ->
            /\ pages' = DictSet(pages, [url |-> page_url,
                                        markdown |-> o.val.markdown,
                                        html |-> o.val.html])
            /\ scraped' = scraped \cup {page_url}
            /\ faults' = faults + Fault(r, o)
            /\ idx' = SkipTarget(doc_urls, idx + 1, url)
            /\ retry' = RetryStart(DefaultMaxRetries)
            /\ UNCHANGED << pc, site, test_mode, api_key, arg, results, url,
                            base_domain, initial_scrape, initial_urls, all_urls, doc_urls,
                            failed, exhausted, fatal, files, manifest,
                            manifest_written, metered, writes >>

\* One invocation of a page's scrape_url by retry_with_backoff.
FetchPage ==
    /\ pc = "fetch"
    /\ idx <= Len(doc_urls)
    /\ ServiceCalled
    /\ \E o \in ScrapeOutcomes(doc_urls[idx], <<>>) :
          LET r == retry_with_backoff(retry, o)
          IN  /\ faults + Fault(r, o) <= FaultLimit
              /\ PageStep(r, o, doc_urls[idx])

\* Lines 273-277: after the last URL the pages are saved and crawl returns
\* output_dir.
Save ==
    /\ pc = "fetch"
    /\ idx > Len(doc_urls)
    /\ LET saved == save_results(pages)
       IN  /\ files' = saved.files
           /\ manifest' = saved.manifest
           /\ manifest_written' = saved.manifest_written
           /\ writes' = saved.writes
    /\ pc' = "returned"
    /\ UNCHANGED << site, test_mode, api_key, arg, results, url, base_domain,
                    retry, initial_scrape, initial_urls, all_urls, doc_urls, idx,
                    pages, scraped, failed, exhausted, fatal, faults,
                    metered, service_calls >>

Next ==
    \/ Construct
    \/ ScrapeInitial
    \/ MapSite
    \/ Cap
    \/ FetchPage
    \/ Save

Spec == Init /\ [][Next]_vars

\* The runs on the sites of more than ten pages.
SpecBulk == InitBulk /\ [][Next]_vars

\* The runs with the calls of the fetch service counted.  crawl is one
\* sequential function and every call of the service returns or raises, so
\* whatever step comes next is taken.
\* They are on a site of two candidates, on one of none and on one that has
\* the target among its candidates.
MeteredSites == {3, 4, 6}

InitMetered == InitRun(MeteredSites, TRUE)

\* Every step of Next either moves the run to another phase or is one more
\* call of the service, and Proceeds is any step that does one of the two
\* before the run has ended.  It is enabled exactly where Next is, and in a
\* run every step that is not a stutter is a step of Next, so its weak
\* fairness is that of Next: the run does not stop while it can go on.
Phases == {"cli", "scrape", "map", "cap", "fetch", "returned", "exited", "aborted"}

Proceeds ==
    /\ pc \in Phases \ {"returned", "exited", "aborted"}
    /\ pc' \in Phases
    /\ service_calls' \in {service_calls, service_calls + 1}

SpecMetered == InitMetered /\ [][Next]_vars /\ WF_<<pc, service_calls>>(Proceeds)

\* The process's exit status once the run has ended: 0 when crawl returned,
\* 1 after sys.exit(1) or click.Abort().
Ended == pc \in {"returned", "exited", "aborted"}
ExitCode == IF pc = "returned" THEN 0 ELSE 1

(***************************************************************************)
(* retry_with_backoff on its own, for every max_retries up to a bound      *)
(***************************************************************************)
UnitValues == {"v1", "v2"}

InitRetry ==
    /\ pc = "unit"
    /\ site = 1
    /\ test_mode = FALSE
    /\ api_key = TRUE
    /\ url = <<>>
    /\ base_domain = <<>>
    /\ retry \in {RetryStart(m) : m \in 0..MaxRetriesArg}
    /\ initial_scrape = [markdown |-> Empty, html |-> Empty]
    /\ initial_urls = <<>>
    /\ all_urls = {}
    /\ doc_urls = <<>>
    /\ idx = 1
    /\ pages = <<>>
    /\ scraped = {}
    /\ failed = {}
    /\ exhausted = "none"
    /\ fatal = "none"
    /\ faults = 0
    /\ files = {}
    /\ manifest = {}
    /\ manifest_written = FALSE
    /\ arg = <<>>
    /\ results = <<>>
    /\ writes = <<>>
    /\ metered = FALSE
    /\ service_calls = 0

\* func() is invoked once more and returns a value or raises.
Invoke ==
    /\ pc = "unit"
    /\ retry.status = "running"
    /\ \E o \in ErrorOutcomes \cup {Returned(v) : v \in UnitValues} :
          \E x \in RandomSamples :
              retry' = retry_with_backoff(retry, [o EXCEPT !.random = x])
    /\ UNCHANGED << pc, site, test_mode, api_key, arg, results, url,
                    base_domain, initial_scrape, initial_urls, all_urls, doc_urls, idx,
                    pages, scraped, failed, exhausted, fatal, faults, files,
                    manifest, manifest_written, metered, writes,
                    service_calls >>

NextRetry == Invoke

SpecRetry == InitRetry /\ [][NextRetry]_vars

(***************************************************************************)
(* Claims about retry_with_backoff (checked under SpecRetry)               *)
(***************************************************************************)
RaisedRateLimit == retry.status = "raised" /\ retry.error \in RateLimitTexts
RaisedOther == retry.status = "raised" /\ retry.error \in OtherTexts

\* C2: retry_with_backoff sleeps and retries only after a rate-limit error.
\* While it runs, every invocation so far raised a rate-limit error and was
\* followed by one sleep; an error of any other kind is raised to the caller
\* by the invocation that met it, with no sleep and no invocation after it,
\* however many rate-limited invocations came before.
C2_RetryOnlyOnRateLimit ==
    /\ retry.sleeps <= retry.limited
    /\ retry.status = "running" =>
          retry.calls = retry.limited /\ retry.sleeps = retry.limited
    /\ retry.status = "raised" =>
          retry.error \in RateLimitTexts \cup OtherTexts
    /\ RaisedOther =>
          retry.calls = retry.limited + 1 /\ retry.sleeps = retry.limited

C2_Witness == RaisedOther /\ retry.limited = 3 /\ retry.sleeps = 3

\* C3: when every invocation raises a rate-limit error, func is invoked
\* exactly max_retries + 1 times with exactly max_retries sleeps, and then
\* the rate-limit error is raised to the caller; no value is returned.
C3_ExhaustsAfterMaxRetries ==
    /\ RaisedRateLimit =>
          /\ retry.calls = retry.max_retries + 1
          /\ retry.sleeps = retry.max_retries
          /\ retry.limited = retry.calls
    /\ (retry.calls > 0 /\ retry.limited = retry.calls) =>
          \/ retry.status = "running" /\ retry.calls <= retry.max_retries
          \/ RaisedRateLimit

C3_Witness ==
    RaisedRateLimit /\ retry.max_retries = DefaultMaxRetries /\ retry.calls = 6

\* C4: when func raises a rate-limit error k times, k <= max_retries, and
\* then returns v, retry_with_backoff returns v after k + 1 invocations and
\* k sleeps; it does not give up before max_retries + 1 rate-limit errors.
C4_ReturnsAfterRateLimits ==
    /\ retry.status = "returned" =>
          /\ retry.calls = retry.limited + 1
          /\ retry.sleeps = retry.limited
          /\ retry.limited <= retry.max_retries
          /\ retry.value \in UnitValues
    /\ RaisedRateLimit => retry.limited = retry.max_retries + 1
    /\ retry.status = "running" => retry.limited <= retry.max_retries

C4_Witness ==
    /\ retry.status = "returned"
    /\ retry.value = "v2"
    /\ retry.limited = retry.max_retries
    /\ retry.max_retries = 3

(***************************************************************************)
(* Claims about a run (checked under Spec, C8 under SpecBulk)              *)
(***************************************************************************)
PageUrls == {pages[i].url : i \in 1..Len(pages)}
ManifestUrls == {e.url : e \in manifest}
Candidates == Range(doc_urls)

\* What the claims expect of each site, computed from the links the service
\* reports for it.

\* The host of the URL the run was given.
TargetHostOf(i) == urlparse(Scenarios[i].target).netloc

\* The links reported on the target page and by map_url.
ReportedLinksOf(i) == Range(Scenarios[i].links) \cup Range(Scenarios[i].map)

\* The reported links and their normal forms that have the target's host.
OnTargetHostOf(i) ==
    {u \in ReportedLinksOf(i) \cup {normalize_url(l) : l \in ReportedLinksOf(i)} :
        urlparse(u).netloc = TargetHostOf(i)}

\* The discovered set: the normal forms of the reported links that have the
\* target's host.
SameHostOf(i) ==
    {normalize_url(l) :
        l \in {k \in ReportedLinksOf(i) : urlparse(k).netloc = TargetHostOf(i)}}

\* The rule test in the claim's words: the lower-cased path holds the rule
\* without its ".*" suffix, or equals a rule that has no such suffix.
RuleHolds(rule, u) ==
    LET path == Lower(urlparse(u).path)
    IN  IF EndsWith(rule, <<".", "*">>)
        THEN Contains(path, SubSeq(rule, 1, Len(rule) - 2))
        ELSE path = rule

\* The discovered URLs that are documentation by the rules for the target.
DocumentationOf(i) ==
    LET rules == get_docs_patterns(normalize_url(Scenarios[i].target))
    IN  {u \in SameHostOf(i) : \E j \in 1..Len(rules) : RuleHolds(rules[j], u)}

\* What classification with its fallback leaves as candidates.
ClassifiedOf(i) ==
    IF DocumentationOf(i) # {} THEN DocumentationOf(i) ELSE SameHostOf(i)

\* The candidates with fewer than 10 candidates before them, as Python
\* compares strings.
SmallestTenOf(i) ==
    LET all == ClassifiedOf(i)
    IN  {u \in all : Cardinality({v \in all : StrLess(v, u)}) < 10}

\* The logical pages among the reported links that have the target's host:
\* a page is a host and a path, whatever the scheme, the query string, the
\* fragment and the trailing slashes of the link.
LogicalPagesOf(i) ==
    {[host |-> urlparse(l).netloc, path |-> RStrip(urlparse(l).path, {"/"})] :
        l \in {k \in ReportedLinksOf(i) : urlparse(k).netloc = TargetHostOf(i)}}

\* The expectations of the sites 1..n, each set written out.
RECURSIVE ExpectedUpTo(_)
ExpectedUpTo(n) ==
    IF n = 0 THEN <<>>
    ELSE Append(ExpectedUpTo(n - 1),
                [host          |-> TargetHostOf(n),
                 on_host       |-> {u : u \in OnTargetHostOf(n)},
                 discovered    |-> {u : u \in SameHostOf(n)},
                 documentation |-> {u : u \in DocumentationOf(n)},
                 classified    |-> {u : u \in ClassifiedOf(n)},
                 smallest_ten  |-> {u : u \in SmallestTenOf(n)},
                 logical_pages |-> {u : u \in LogicalPagesOf(n)}])

Expected == ExpectedUpTo(Len(Scenarios))

TargetHost == Expected[site].host
ReportedLinks == ReportedLinksOf(site)
Documentation == Expected[site].documentation
Classified == Expected[site].classified

Discovered == pc \in {"cap", "fetch", "returned"}
Capped == test_mode /\ Cardinality(Classified) > 10

\* C1: the error of one page's scrape does not end the run.  A URL whose
\* fetch raised is not the target and has no entry in pages or the manifest;
\* the run stays in its loop or returns; and when crawl has returned, every
\* candidate but the target was fetched, every fetched URL that did not
\* raise is in pages, and every page with markdown is in the manifest.
C1_PageFailureDoesNotAbort ==
    /\ \A u \in failed : u # url /\ u \notin PageUrls /\ u \notin ManifestUrls
    /\ failed # {} => pc \in {"fetch", "returned"}
    /\ pc = "returned" =>
          /\ ExitCode = 0
          /\ scraped = Candidates \ {url}
          /\ \A u \in scraped \ failed : u \in PageUrls
          /\ \A i \in 1..Len(pages) :
                pages[i].markdown # Empty =>
                    manifest_written /\ pages[i].url \in ManifestUrls

\* Of three candidates the first fails; the manifest holds the other two.
C1_Witness ==
    /\ pc = "returned"
    /\ Len(doc_urls) = 3
    /\ failed = {doc_urls[1]}
    /\ manifest_written
    /\ ManifestUrls = {doc_urls[2], doc_urls[3]}

\* C5: every URL kept from the reported links, every candidate and every
\* URL a page's scrape was called with has exactly the target's host.
C5_OnlyTargetHost ==
    \A u \in Range(initial_urls) \cup all_urls \cup Candidates \cup scraped :
        u \in Expected[site].on_host

\* Links to a subdomain and to another domain were reported; pages were
\* fetched.
C5_Witness ==
    /\ pc = "returned"
    /\ scraped # {}
    /\ \E l \in ReportedLinks :
          /\ urlparse(l).netloc # TargetHost
          /\ EndsWith(urlparse(l).netloc, TargetHost)
    /\ \E l \in ReportedLinks :
          ~EndsWith(urlparse(l).netloc, TargetHost)

\* C6: the discovered set is the same-host links of both lists, normalized;
\* when some of it matches a rule, the candidates classification leaves
\* (and crawl fetches, unless test mode then cuts them to ten) are exactly
\* the matching URLs, each once.
C6_CandidatesAreMatching ==
    Discovered =>
        /\ all_urls = Expected[site].discovered
        /\ (Documentation # {} /\ (pc = "cap" \/ ~Capped)) =>
              /\ Candidates = Documentation
              /\ Len(doc_urls) = Cardinality(Documentation)

\* The end-to-end case: three of four discovered URLs are candidates.
C6_Witness ==
    /\ pc = "cap"
    /\ Cardinality(all_urls) = 4
    /\ Cardinality(Candidates) = 3
    /\ all_urls \ Candidates # {}

\* C7: when no discovered URL matches a rule, the candidates are all the
\* discovered URLs, each once; there are no candidates only when nothing
\* was discovered; and a run that ended in sys.exit(1) did so before it
\* classified anything.
C7_FallbackToAll ==
    /\ Discovered =>
          /\ (Documentation = {} /\ (pc = "cap" \/ ~Capped)) =>
                /\ Candidates = all_urls
                /\ Len(doc_urls) = Cardinality(all_urls)
          /\ doc_urls = <<>> => all_urls = {}
    /\ pc = "exited" => fatal \in {"scrape_url", "map_url"} /\ all_urls = {}

\* Nothing matched, and every discovered URL was fetched.
C7_Witness ==
    /\ pc = "returned"
    /\ Documentation = {}
    /\ Cardinality(all_urls) = 2
    /\ scraped = all_urls

\* C8: after the cap, in test mode with more than 10 candidates, exactly
\* the 10 smallest candidates (as Python compares strings) are left, a set
\* fixed by the discovered URLs whatever order they were iterated in; with 10
\* or fewer, or outside test mode, the candidates are left as they were.
C8_TestModeKeepsSmallestTen ==
    pc \in {"fetch", "returned"} =>
        /\ Len(doc_urls) = Cardinality(Candidates)
        /\ test_mode => Len(doc_urls) <= 10
        /\ IF Capped
           THEN /\ Cardinality(Candidates) = 10
                /\ Candidates = Expected[site].smallest_ten
           ELSE Candidates = Classified

\* Eleven candidates in test mode, matched by a rule: ten are left.
C8_Witness ==
    /\ pc = "fetch"
    /\ test_mode
    /\ Cardinality(Documentation) = 11
    /\ Len(doc_urls) = 10

\* C9: when the initial scrape or map_url raises out of its retries, the
\* run ends in sys.exit(1); no page's scrape was called, pages is empty, no
\* file and no manifest was written.
C9_DiscoveryFailureIsFatal ==
    (fatal \in {"scrape_url", "map_url"} \/ retry.status = "raised") =>
        /\ pc = "exited"
        /\ ExitCode = 1
        /\ scraped = {}
        /\ pages = <<>>
        /\ files = {}
        /\ ~manifest_written

\* map_url was rate-limited until its retries were used up.
C9_Witness ==
    /\ pc = "exited"
    /\ fatal = "map_url"
    /\ retry.limited = DefaultMaxRetries + 1
    /\ retry.error \in RateLimitTexts

\* C10 as stated: a call of the run that used up its retries on rate-limit
\* errors ends the run with a non-zero exit, so crawl never returns after one.
C10_ExhaustionAlwaysFatal == exhausted # "none" => pc # "returned"

\* C10 as amended: used-up retries are fatal in the initial scrape and in
\* map_url; in a page's fetch they fail that page only, and the run stays in
\* its loop or returns.
C10_ExhaustionFatalInDiscovery ==
    /\ exhausted \in {"scrape_url", "map_url"} => pc = "exited" /\ ExitCode = 1
    /\ exhausted = "page" => failed # {} /\ pc \in {"fetch", "returned"}
    /\ pc = "exited" /\ retry.error \in RateLimitTexts =>
          exhausted = fatal /\ retry.calls = DefaultMaxRetries + 1

\* The initial scrape was rate-limited six times.
C10_Witness ==
    /\ pc = "exited"
    /\ exhausted = "scrape_url"
    /\ retry.calls = DefaultMaxRetries + 1

(***************************************************************************)
(* Claims about the pages and the files of a run (checked under Spec)      *)
(***************************************************************************)
\* html/<name>.html for the page of URL u.
HtmlFileOf(u) == HtmlDir \o sanitize_filename(u) \o HtmlSuffix
\* <name>.md for the page of URL u.
MdFileOf(u) == sanitize_filename(u) \o MdSuffix

\* C11: after save_results every page of pages that has HTML has a manifest
\* entry that records its html_file, also when the page has no markdown.
C11_HtmlPagesInManifest ==
    pc = "returned" =>
        \A i \in 1..Len(pages) :
            pages[i].html # Empty =>
                \E e \in manifest :
                    e.url = pages[i].url /\ e.html_file = HtmlFileOf(pages[i].url)

\* The discovery-phase scrape returned markdown or html.
InitialHasContent == initial_scrape.markdown # Empty \/ initial_scrape.html # Empty

\* The first page of pages is the target with the discovery-phase content.
TargetIsFirstPage ==
    /\ Len(pages) >= 1
    /\ pages[1] = [url |-> url, markdown |-> initial_scrape.markdown,
                   html |-> initial_scrape.html]

\* C12 as stated: in every run whose discovery succeeded, the pages handed
\* to save_results hold the target first, with the content of the
\* discovery-phase scrape, and no page's scrape was called with the target.
C12_TargetAlwaysFirstPage ==
    pc = "returned" => TargetIsFirstPage /\ url \notin scraped

\* C12 as amended: once the loop is entered, the target is the first page,
\* with the discovery-phase content, exactly when that scrape returned
\* markdown or html, and is no page otherwise; no other page holds the
\* target's URL, and no page's scrape is called with the target.
C12_TargetFirstWhenItHasContent ==
    pc \in {"fetch", "returned"} =>
        /\ InitialHasContent => TargetIsFirstPage
        /\ ~InitialHasContent => url \notin PageUrls
        /\ \A i \in 2..Len(pages) : pages[i].url # url
        /\ url \notin scraped

\* The target is among the candidates; it is the first of two or more pages.
C12_Witness ==
    /\ pc = "returned"
    /\ url \in Candidates
    /\ TargetIsFirstPage
    /\ Len(pages) >= 2

(***************************************************************************)
(* normalize_url and sanitize_filename on their own, for the spellings of  *)
(* a URL                                                                   *)
(***************************************************************************)
\* The longest run of slashes a spelling ends its path with.
MaxSlashes == 2

Slashes(k) == [i \in 1..k |-> "/"]

SchemeSpellings ==
    {<<>>,
     <<"h", "t", "t", "p", ":", "/", "/">>,
     <<"h", "t", "t", "p", "s", ":", "/", "/">>,
     <<"/", "/">>,
     <<"f", "t", "p", ":", "/", "/">>}
HostSpellings ==
    {<<>>,
     <<"x", ".", "c", "o", "m">>,
     <<"x", ".", "c", "o", "m", ":", "8", "0">>}
PathStems ==
    {<<>>,
     <<"/", "a">>,
     <<"/", "a", "/", "b">>,
     <<"/", "a", "-", "b">>,
     <<"/", "a", "%", "2", "F", "b">>,
     <<"/", "%", "2", "F", "a", "%", "2">>,
     <<"/", "/", "a">>,
     <<"/", "a", ";", "p">>}
Suffixes ==
    {<<>>,
     <<"?", "q", "=", "1">>,
     <<"#", "f">>}

\* scheme, host, path, a run of slashes, and a query or a fragment
UrlInputs ==
    {sc \o h \o st \o Slashes(k) \o sf :
        sc \in SchemeSpellings, h \in HostSpellings, st \in PathStems,
        k \in 0..MaxSlashes, sf \in Suffixes}

InitPure ==
    /\ pc = "pure"
    /\ arg \in UrlInputs
    /\ results = <<>>
    /\ writes = <<>>
    /\ metered = FALSE
    /\ service_calls = 0
    /\ site = 1
    /\ test_mode = FALSE
    /\ api_key = TRUE
    /\ url = <<>>
    /\ base_domain = <<>>
    /\ retry = RetryStart(DefaultMaxRetries)
    /\ initial_scrape = [markdown |-> Empty, html |-> Empty]
    /\ initial_urls = <<>>
    /\ all_urls = {}
    /\ doc_urls = <<>>
    /\ idx = 1
    /\ pages = <<>>
    /\ scraped = {}
    /\ failed = {}
    /\ exhausted = "none"
    /\ fatal = "none"
    /\ faults = 0
    /\ files = {}
    /\ manifest = {}
    /\ manifest_written = FALSE

\* normalize_url is called on arg, and then once more on what it returned.
Normalize ==
    /\ pc = "pure"
    /\ Len(results) < 2
    /\ \A i \in 1..Len(results) : results[i].fn = "normalize_url"
    /\ LET x == IF results = <<>> THEN arg ELSE results[Len(results)].val
       IN  results' = Append(results, [fn |-> "normalize_url", of |-> x,
                                       val |-> normalize_url(x)])
    /\ UNCHANGED << pc, site, test_mode, api_key, arg, url, base_domain,
                    retry, initial_scrape, initial_urls, all_urls, doc_urls,
                    idx, pages, scraped, failed, exhausted, fatal, faults,
                    files, manifest, manifest_written, metered,
                    writes, service_calls >>

\* sanitize_filename is called on arg.
Sanitize ==
    /\ pc = "pure"
    /\ results = <<>>
    /\ results' = << [fn |-> "sanitize_filename", of |-> arg,
                      val |-> sanitize_filename(arg)] >>
    /\ UNCHANGED << pc, site, test_mode, api_key, arg, url, base_domain,
                    retry, initial_scrape, initial_urls, all_urls, doc_urls,
                    idx, pages, scraped, failed, exhausted, fatal, faults,
                    files, manifest, manifest_written, metered,
                    writes, service_calls >>

NextPure == Normalize \/ Sanitize

SpecPure == InitPure /\ [][NextPure]_vars

\* The calls made of each function.
Normalized == results # <<>> /\ results[1].fn = "normalize_url"
Sanitized == results # <<>> /\ results[1].fn = "sanitize_filename"

\* C13: normalize_url is idempotent, normalize_url(normalize_url(x)) =
\* normalize_url(x) for every x, and its result starts with "https://"
\* whatever scheme x has.
C13_NormalizeIdempotent ==
    Normalized =>
        /\ StartsWith(results[1].val, SchemePrefix)
        /\ Len(results) = 2 => results[2].val = results[1].val

\* "https://" followed by the host and the path of the argument of the
\* first call.
Rebuilt == SchemePrefix \o urlparse(results[1].of).netloc \o urlparse(results[1].of).path

PageFetched == pc = "fetch" /\ idx' > idx /\ failed' = failed

\* C15: a logical page is processed at most once.  The discovered URLs are
\* as many as the logical pages among the reported same-host links (links
\* that differ in scheme, query string, fragment or trailing slash are one
\* URL), no candidate and no page is there twice, and a scrape that returns
\* is never of the target or of a URL that already has a page.
C15_EachPageOnce ==
    /\ [](Discovered =>
            /\ Cardinality(all_urls) = Cardinality(Expected[site].logical_pages)
            /\ Len(doc_urls) = Cardinality(Candidates)
            /\ Len(pages) = Cardinality(PageUrls))
    /\ [][PageFetched =>
            /\ doc_urls[idx] \notin PageUrls \cup {url}
            /\ Len(pages') = Len(pages) + 1]_vars

\* Four spellings of one page were reported; it was fetched once.
C15_Witness ==
    /\ pc = "returned"
    /\ Cardinality(ReportedLinks) = 4
    /\ Cardinality(all_urls) = 1
    /\ scraped = all_urls
    /\ PageUrls = all_urls \cup {url}

\* C16: pages of distinct paths get distinct file names, so that after
\* save_results the file a manifest entry names holds that page's content.
C16_DistinctPathsDistinctFiles ==
    /\ \A i, j \in 1..Len(pages) :
          urlparse(pages[i].url).path # urlparse(pages[j].url).path =>
              sanitize_filename(pages[i].url) # sanitize_filename(pages[j].url)
    /\ pc = "returned" =>
          \A e \in manifest : \A f \in files :
              /\ f.path = e.markdown_file => f.text = Markdown(e.url)
              /\ f.path = e.html_file => f.text = Html(e.url)

\* C17: sanitize_filename returns the percent-decoded path without its
\* leading and trailing slashes and with "-" for every slash in between, and
\* "index" when nothing is left of the path.
C17_FilenameFromPath ==
    Sanitized =>
        LET decoded == unquote(urlparse(results[1].of).path)
            kept == {i \in 1..Len(decoded) : decoded[i] # "/"}
            val == results[1].val
        IN  IF kept = {}
            THEN val = <<"i", "n", "d", "e", "x">>
            ELSE LET first == CHOOSE i \in kept : \A j \in kept : i <= j
                     last == CHOOSE i \in kept : \A j \in kept : j <= i
                 IN  /\ Len(val) = last - first + 1
                     /\ \A i \in 1..Len(val) :
                           val[i] = IF decoded[first + i - 1] = "/"
                                    THEN "-" ELSE decoded[first + i - 1]

\* An escaped slash is decoded and joined like a slash; the trailing slash
\* is dropped.
C17_Witness ==
    /\ Sanitized
    /\ results[1].of = <<"h", "t", "t", "p", "s", ":", "/", "/", "x", ".", "c", "o", "m", "/", "a", "%", "2", "F", "b", "/">>
    /\ results[1].val = <<"a", "-", "b">>

\* C18: without an API key, given or in the environment, the run ends in
\* DocCrawler(...) with click.Abort(), a non-zero exit: the service is never
\* called and no page, file or manifest comes to exist.  With a key the run
\* never ends that way.
C18_NoKeyNoRun ==
    /\ ~api_key =>
          /\ pc \in {"cli", "aborted"}
          /\ retry.calls = 0
          /\ url = <<>>
          /\ scraped = {}
          /\ pages = <<>>
          /\ files = {}
          /\ ~manifest_written
    /\ pc = "aborted" => ~api_key /\ fatal = "api_key" /\ ExitCode = 1
    /\ fatal = "api_key" => pc = "aborted"

\* A run without a key has ended.
C18_Witness == pc = "aborted" /\ ~api_key /\ fatal = "api_key" /\ Ended

\* C19: in test mode a run crawls at most 10 pages, the target's page
\* counted with the pages the loop fetches: pages, and so the manifest,
\* never holds more than 10.
C19_TestModeAtMostTenPages ==
    test_mode =>
        /\ Len(pages) <= TestLimit
        /\ Cardinality(manifest) <= TestLimit
        /\ pc \in {"fetch", "returned"} => 1 + Cardinality(scraped) <= TestLimit

(***************************************************************************)
(* The sleeps of retry_with_backoff (checked under SpecRetry)              *)
(***************************************************************************)
\* min(300, base_delay * 2^n) seconds with base_delay = 1, in the unit of
\* retry.delay.
NominalDelay(n) == (IF 2^n < 300 THEN 2^n ELSE 300) * Second

\* C20: the sleep before retry n (n = 0 for the first) lies within 10% of
\* its nominal value min(300, 2^n) seconds, which never falls as n grows,
\* and no sleep is longer than 330 seconds.
C20_DelayWithinTenPercent ==
    retry.sleeps > 0 =>
        LET n == retry.attempt - 1
        IN  /\ retry.sleeps = retry.attempt
            /\ 9 * NominalDelay(n) <= 10 * retry.delay
            /\ 10 * retry.delay <= 11 * NominalDelay(n)
            /\ n > 0 => NominalDelay(n - 1) <= NominalDelay(n)
            /\ retry.delay <= 330 * Second

\* The tenth retry: the nominal delay is capped at 300 seconds and the
\* jitter adds to it.
C20_Witness ==
    /\ retry.attempt = 10
    /\ retry.delay > 300 * Second


\* A call of scrape_url for a candidate page (a step of the loop of
\* lines 238-271 that stays in the loop).
PageScrapeCalled == pc = "fetch" /\ pc' = "fetch"

\* The candidates before position n, the target left out.
CandidatesBefore(n) ==
    {doc_urls[i] : i \in 1..(IF n - 1 < Len(doc_urls) THEN n - 1 ELSE Len(doc_urls))}
        \ {url}

\* The paths save_results wrote before its last write.
EarlierWrites == {writes[i] : i \in 1..(Len(writes) - 1)}

\* C21: the phases of a run are strictly ordered.  No page is scraped before
\* the initial scrape and the map have completed; pages are scraped one at
\* a time in the order of the candidate list (the URL being called is the
\* one at the current position, every candidate before it was called, none
\* after it was, and the position moves on only with a fresh attempt
\* counter, that is after the page's retries have finished); nothing is
\* written before the last page's scrape has finished; and manifest.json is
\* written exactly once, after every page artifact.
C21_PhasesInOrder ==
    /\ [](scraped # {} => pc \in {"fetch", "returned"})
    /\ [](pc \in {"fetch", "returned"} =>
            /\ CandidatesBefore(idx) \subseteq scraped
            /\ scraped \subseteq CandidatesBefore(idx + 1)
            /\ retry.calls > 0 => idx <= Len(doc_urls) /\ doc_urls[idx] \in scraped)
    /\ [][PageScrapeCalled =>
            /\ scraped' = scraped \cup {doc_urls[idx]}
            /\ \/ idx' = idx /\ retry'.calls = retry.calls + 1
               \/ idx' > idx /\ retry' = RetryStart(DefaultMaxRetries)]_vars
    /\ [](writes # <<>> \/ files # {} \/ manifest_written =>
            /\ pc = "returned"
            /\ idx > Len(doc_urls)
            /\ retry = RetryStart(DefaultMaxRetries))
    /\ [](manifest_written =>
            /\ writes[Len(writes)] = ManifestFile
            /\ ManifestFile \notin EarlierWrites
            /\ EarlierWrites = {f.path : f \in files})

\* A run that fetched two candidates in order and then wrote at least three
\* page artifacts and, last, the manifest.
C21_Witness ==
    /\ pc = "returned"
    /\ Len(doc_urls) >= 2
    /\ CandidatesBefore(idx) = scraped
    /\ Cardinality(scraped) >= 2
    /\ Len(writes) >= 4
    /\ writes[Len(writes)] = ManifestFile


\* C22: every run of crawl that returns has written manifest.json, holding
\* the timestamp and an entry for every page that has markdown, and that
\* also when the initial page had no content and no candidate's fetch
\* returned a page (manifest_written stands for the file, whose timestamp
\* is set when it is built, lines 103-106).
C22_ReturnedRunWroteManifest ==
    pc = "returned" =>
        /\ manifest_written
        /\ ManifestFile \in Range(writes)
        /\ ManifestUrls =
              {pages[i].url : i \in {j \in 1..Len(pages) : pages[j].markdown # Empty}}


\* The calls a run over its candidates may make at most: the initial
\* scrape, the map and one scrape per candidate, each retried max_retries
\* times.
CallLimit == (Len(doc_urls) + 2) * (DefaultMaxRetries + 1)

\* Before a run has ended it can take a step, and every step it takes is a
\* step of Proceeds that changes the phase or the number of calls.
StepsProceed ==
    /\ [](pc \in Phases)
    /\ [][/\ Proceeds
          /\ <<pc, service_calls>>' # <<pc, service_calls>>]_vars

\* C23: every run ends, in a return or in a non-zero exit, whatever the
\* service answers.  Each call of retry_with_backoff counts its attempts
\* from 0 and invokes the service at most max_retries + 1 times, so that a
\* run over n candidates makes at most (n + 2) * (max_retries + 1) calls of
\* the service.  (The steps of a run are those the fairness of SpecMetered
\* is about.)
C23_RunTerminatesWithinCallLimit ==
    /\ StepsProceed
    /\ <>Ended
    /\ [](/\ retry.max_retries = DefaultMaxRetries
          /\ retry.attempt \in 0..retry.max_retries
          /\ retry.calls = 0 => retry.attempt = 0
          /\ retry.calls <= retry.max_retries + 1
          /\ service_calls <= CallLimit)

\* A run over two candidates or more in which every call was rate-limited
\* max_retries times: it made as many calls as the limit allows and
\* returned.
C23_Witness ==
    /\ metered
    /\ pc = "returned"
    /\ Len(doc_urls) >= 2
    /\ service_calls = CallLimit

=============================================================================
